---- MODULE Spec2Model ----
(***************************************************************************)
(* safenames: the object builder of src/src/safenames.js as a state        *)
(* machine.  The state is the JavaScript heap the library works on (the    *)
(* prototypes, the instances, the caller's literal objects), the builders  *)
(* with their two descriptor maps, the exported constructor functions and  *)
(* the caller's handles; every public method of the builder is an operator *)
(* on that state and an action of the caller.                              *)
(***************************************************************************)
EXTENDS Integers, Sequences, FiniteSets, TLC

VARIABLES heap, maps, builders, ctors, handles, insts, ret

vars == <<heap, maps, builders, ctors, handles, insts, ret>>

(***************************************************************************)
(* Bounds of the model.                                                    *)
(***************************************************************************)
MaxHeap == 14
MaxBuilders == 3
MaxInsts == 2
MaxCtors == 1
MaxRoots == 1
MaxLen == 3
MaxNested == 1
MaxDerived == 1
MaxInheritInsts == 1

(***************************************************************************)
(* JavaScript values: a tag and a payload.                                 *)
(***************************************************************************)
Undef == [t |-> "undef", v |-> 0]
Null == [t |-> "null", v |-> 0]
Num(n) == [t |-> "num", v |-> n]
Fn(k) == [t |-> "fn", v |-> k]
Ref(o) == [t |-> "ref", v |-> o]
Bld(b) == [t |-> "bld", v |-> b]
Arr(s) == [t |-> "seq", v |-> s]
Thrown == [t |-> "throw", v |-> 0]
Bool(v) == [t |-> "bool", v |-> v]

typeof(x) ==
  CASE x.t = "undef" -> "undefined"
    [] x.t = "num" -> "number"
    [] x.t \in {"fn", "acc"} -> "function"
    [] OTHER -> "object"

\* x == null in the source: null or undefined
isNullish(x) == x.t \in {"undef", "null"}

(***************************************************************************)
(* Property names.  NullName stands for an omitted or null name argument.  *)
(***************************************************************************)
NullName == "<null>"
NameOrder == <<"a", "b", "c", "con", "foo", "name", "prototype", "$$",
               "$a", "$b", "$c", "$con", "$foo", "$name", "$prototype">>

Dollar(p) == "$" \o p

\* a getter/setter that is built for the name a whatever the property
createGetterSetterA(propertyName) == [t |-> "acc", v |-> "a"]

\* the function createGetterSetter(p) returns: a two-mode accessor for p
createGetterSetter(propertyName) == [t |-> "acc", v |-> propertyName]

(***************************************************************************)
(* Partial property descriptors: a function from some of the attributes to *)
(* their values; an attribute that is not in the domain is undefined.      *)
(* NoDesc is a descriptor argument that is null or undefined.              *)
(***************************************************************************)
Attrs == <<"configurable", "enumerable", "writable", "value", "get", "set">>
NoDesc == [none |-> TRUE]
EmptyDesc == <<>>

\* one statement after another: r is evaluated once and K applied to its value
Then(r, K(_)) == CHOOSE out \in {K(x) : x \in {r}} : TRUE

Defined(d) ==
  {a \in DOMAIN d : a \in {"value", "get", "set"} => d[a] # Undef}

RECURSIVE mixFrom(_, _, _)
mixFrom(ds, i, result) ==
  IF i > Len(ds) THEN result
  ELSE IF ds[i] = NoDesc THEN mixFrom(ds, i + 1, result)
  ELSE Then([a \in (DOMAIN result) \cup
                     (Defined(ds[i]) \cap {Attrs[k] : k \in 1..Len(Attrs)}) |->
               IF a \in Defined(ds[i]) THEN ds[i][a] ELSE result[a]],
            LAMBDA next : mixFrom(ds, i + 1, next))

\* mixedPropertyDescriptor(d1, d2, ...): later descriptors win, attribute by attribute
mixedPropertyDescriptor(descriptors) ==
  Then(descriptors, LAMBDA ds : mixFrom(ds, 1, EmptyDesc))

REGULAR_PROPERTY == [configurable |-> FALSE, enumerable |-> TRUE, writable |-> TRUE]
GETTER_SETTER == [configurable |-> FALSE, enumerable |-> FALSE, writable |-> FALSE]
METHOD == [configurable |-> TRUE, enumerable |-> FALSE, writable |-> FALSE]

\* a merge in which the descriptor argument comes after the default value
createPropertyDescriptorValueFirst(defaultDescriptor, defaultValue, descriptor) ==
  mixedPropertyDescriptor(<<defaultDescriptor, [value |-> defaultValue], descriptor>>)

createPropertyDescriptor(defaultDescriptor, defaultValue, descriptor) ==
  IF defaultValue = Undef /\ descriptor = NoDesc
  THEN mixedPropertyDescriptor(<<defaultDescriptor>>)
  ELSE IF descriptor = NoDesc
  THEN mixedPropertyDescriptor(<<defaultDescriptor, [value |-> defaultValue]>>)
  ELSE IF defaultValue = Undef
  THEN mixedPropertyDescriptor(<<defaultDescriptor, descriptor>>)
  ELSE mixedPropertyDescriptor(<<defaultDescriptor, descriptor, [value |-> defaultValue]>>)

\* mixedPropertyDescriptors(m1, m2, ...): the same merge, name by name, into a new map
RECURSIVE mixMapsFrom(_, _, _)
mixMapsFrom(ms, i, result) ==
  IF i > Len(ms) THEN result
  ELSE LET d == ms[i]
           named == {n \in DOMAIN d : Defined(d[n]) # {}}
       IN Then([n \in (DOMAIN result) \cup named |->
                  IF n \in named
                  THEN mixedPropertyDescriptor(
                         <<IF n \in DOMAIN result THEN result[n] ELSE EmptyDesc, d[n]>>)
                  ELSE result[n]],
               LAMBDA next : mixMapsFrom(ms, i + 1, next))

mixedPropertyDescriptors(objects) ==
  Then(objects, LAMBDA ms : mixMapsFrom(ms, 1, <<>>))

(***************************************************************************)
(* The heap: a sequence of objects, an object's identity is its index.     *)
(* An object has a prototype link (0: none), own data properties, each     *)
(* with the four attributes of a data property, and, for an array, its     *)
(* elements.                                                               *)
(***************************************************************************)
\* the data property an assignment or an object literal creates
Data(v) == [value |-> v, writable |-> TRUE, enumerable |-> TRUE, configurable |-> TRUE]

NewObj(proto) == [kind |-> "obj", proto |-> proto, props |-> <<>>, elems |-> <<>>]
NewArr(elems) == [kind |-> "arr", proto |-> 0, props |-> <<>>, elems |-> elems]

KeysOf(f) == SelectSeq(NameOrder, LAMBDA n : n \in DOMAIN f)

isArray(h, x) == x.t = "seq" \/ (x.t = "ref" /\ h[x.v].kind = "arr")

\* the prototype chain of object o, o first
RECURSIVE Chain(_, _)
Chain(h, o) == IF o = 0 THEN <<>> ELSE <<o>> \o Chain(h, h[o].proto)

\* a.isPrototypeOf(o)
isPrototypeOf(h, a, o) == \E k \in 2..Len(Chain(h, o)) : Chain(h, o)[k] = a

\* the object of the chain of o that holds name as an own property, 0 if none
Holder(h, o, name) ==
  LET c == Chain(h, o)
      at == {k \in 1..Len(c) : name \in DOMAIN h[c[k]].props}
  IN IF at = {} THEN 0 ELSE c[CHOOSE k \in at : \A j \in at : k <= j]

\* o[name]
JSGet(h, o, name) ==
  LET holder == Holder(h, o, name)
  IN IF holder = 0 THEN Undef ELSE h[holder].props[name].value

\* whether the assignment o[name] = v is allowed
CanSet(h, o, name) ==
  LET holder == Holder(h, o, name)
  IN holder = 0 \/ h[holder].props[name].writable

\* o[name] = v: the heap after the assignment, unchanged when it is not allowed
\* an assignment that lands on the prototype of the object
JSSetProto(h, o, name, v) ==
  [h EXCEPT ![h[o].proto].props =
     [n \in DOMAIN @ \cup {name} |-> IF n = name THEN Data(v) ELSE @[n]]]

JSSet(h, o, name, v) ==
  IF ~CanSet(h, o, name) THEN h
  ELSE IF name \in DOMAIN h[o].props
  THEN [h EXCEPT ![o].props[name].value = v]
  ELSE [h EXCEPT ![o].props =
          [n \in DOMAIN @ \cup {name} |->
             IF n = name
             THEN [value |-> v, writable |-> TRUE, enumerable |-> TRUE,
                   configurable |-> TRUE]
             ELSE @[n]]]

\* a descriptor Object.defineProperty rejects whatever the object holds
BadDesc(d) ==
  \/ d = NoDesc
  \/ /\ Defined(d) \cap {"get", "set"} # {}
     /\ Defined(d) \cap {"value", "writable"} # {}

\* a new function object is never the value a property already holds
SameValue(new, old) == new = old /\ new.t # "acc"

Flag(d, a) == a \in DOMAIN d /\ d[a]

\* whether Object.defineProperty(o, name, d) throws
DefineThrows(h, o, name, d) ==
  \/ BadDesc(d)
  \/ /\ name \in DOMAIN h[o].props
     /\ LET e == h[o].props[name]
        IN /\ ~e.configurable
           /\ \/ Flag(d, "configurable")
              \/ "enumerable" \in DOMAIN d /\ d["enumerable"] # e.enumerable
              \/ /\ ~e.writable
                 /\ \/ Flag(d, "writable")
                    \/ "value" \in Defined(d) /\ ~SameValue(d["value"], e.value)

\* the own property Object.defineProperty(o, name, d) leaves
Defined1(h, o, name, d) ==
  IF name \in DOMAIN h[o].props
  THEN LET e == h[o].props[name]
       IN [value |-> IF "value" \in Defined(d) THEN d["value"] ELSE e.value,
           writable |-> IF "writable" \in DOMAIN d THEN d["writable"] ELSE e.writable,
           enumerable |-> IF "enumerable" \in DOMAIN d THEN d["enumerable"] ELSE e.enumerable,
           configurable |-> IF "configurable" \in DOMAIN d THEN d["configurable"] ELSE e.configurable]
  ELSE [value |-> IF "value" \in Defined(d) THEN d["value"] ELSE Undef,
        writable |-> Flag(d, "writable"),
        enumerable |-> Flag(d, "enumerable"),
        configurable |-> Flag(d, "configurable")]

\* Object.defineProperty(o, name, d): the heap after it and whether it returned
defineProperty(h, o, name, descriptor) ==
  Then(descriptor, LAMBDA d :
    IF DefineThrows(h, o, name, d) THEN [heap |-> h, ok |-> FALSE]
    ELSE [heap |-> [h EXCEPT ![o].props =
                      [n \in DOMAIN @ \cup {name} |->
                         IF n = name THEN Defined1(h, o, name, d) ELSE @[n]]],
          ok |-> TRUE])

\* Object.defineProperties(o, descs): every property of the map, in key order
RECURSIVE definePropertiesFrom(_, _, _, _, _)
definePropertiesFrom(h, o, descs, keys, i) ==
  IF i > Len(keys) THEN [heap |-> h, ok |-> TRUE]
  ELSE Then(defineProperty(h, o, keys[i], descs[keys[i]]), LAMBDA r :
         IF r.ok THEN definePropertiesFrom(r.heap, o, descs, keys, i + 1) ELSE r)

defineProperties(h, o, descs) ==
  Then(KeysOf(descs), LAMBDA keys : definePropertiesFrom(h, o, descs, keys, 1))

\* Object.create(proto, descs): the new object is the last of the heap
ObjectCreate(h, proto, descs) ==
  Then(Append(h, NewObj(proto)), LAMBDA h1 :
    Then(defineProperties(h1, Len(h1), descs), LAMBDA r :
      [heap |-> r.heap, ok |-> r.ok, val |-> Ref(Len(h1))]))

(***************************************************************************)
(* Builders.  A world is the heap, the descriptor maps (a map's identity   *)
(* is its index: two builders may hold the same map) and the builders.     *)
(* An operation takes a world and gives the world after it, whether it     *)
(* returned (ok) or threw, and the value it returned.                      *)
(***************************************************************************)
PrototypeProto == 1

World(h, m, b) == [heap |-> h, maps |-> m, builders |-> b]
Returns(w, val) == [w |-> w, ok |-> TRUE, val |-> val]
Throws(w) == [w |-> w, ok |-> FALSE, val |-> Thrown]

SetEntry(w, mid, name, desc) ==
  [w EXCEPT !.maps[mid] =
     [n \in DOMAIN @ \cup {name} |-> IF n = name THEN desc ELSE @[n]]]

\* a builder made of a builder whose prototype object is not chained to the source's
ObjectBuilderUnchained(w, prototype, parent) ==
  LET this ==
        [parent |-> parent, scalarProperties |-> Len(w.maps) + 1,
         objectProperties |-> Len(w.maps) + 2, proto |-> Len(w.heap) + 1]
      src == w.builders[prototype.v]
  IN IF prototype.t # "bld"
     THEN Returns(World(Append(w.heap, NewObj(PrototypeProto)), w.maps \o <<<<>>, <<>>>>,
                        Append(w.builders, this)), Bld(Len(w.builders) + 1))
     ELSE Returns(World(Append(w.heap, NewObj(PrototypeProto)),
                        w.maps \o <<w.maps[src.scalarProperties],
                                    w.maps[src.objectProperties]>>,
                        Append(w.builders, this)), Bld(Len(w.builders) + 1))

\* a builder made of a builder that holds the source's maps themselves
ObjectBuilderAlias(w, prototype, parent) ==
  LET src == w.builders[prototype.v]
  IN IF prototype.t # "bld"
     THEN Returns(World(Append(w.heap, NewObj(PrototypeProto)), w.maps \o <<<<>>, <<>>>>,
                        Append(w.builders,
                               [parent |-> parent, scalarProperties |-> Len(w.maps) + 1,
                                objectProperties |-> Len(w.maps) + 2,
                                proto |-> Len(w.heap) + 1])), Bld(Len(w.builders) + 1))
     ELSE Returns(World(Append(w.heap, NewObj(src.proto)), w.maps,
                        Append(w.builders,
                               [parent |-> parent, scalarProperties |-> src.scalarProperties,
                                objectProperties |-> src.objectProperties,
                                proto |-> Len(w.heap) + 1])), Bld(Len(w.builders) + 1))

\* new ObjectBuilder(prototype, parent): the new builder is the last one
ObjectBuilder(w, prototype, parent) ==
  LET id == Len(w.builders) + 1
      this ==
        [parent |-> parent, scalarProperties |-> Len(w.maps) + 1,
         objectProperties |-> Len(w.maps) + 2, proto |-> Len(w.heap) + 1]
  IN IF isNullish(prototype)
     THEN Returns(World(Append(w.heap, NewObj(PrototypeProto)),
                        w.maps \o <<<<>>, <<>>>>,
                        Append(w.builders, this)), Bld(id))
     ELSE IF prototype.t = "bld"
     THEN LET src == w.builders[prototype.v]
          IN Returns(World(Append(w.heap, NewObj(src.proto)),
                           w.maps \o <<mixedPropertyDescriptors(<<w.maps[src.scalarProperties]>>),
                                       mixedPropertyDescriptors(<<w.maps[src.objectProperties]>>)>>,
                           Append(w.builders, this)), Bld(id))
     ELSE IF prototype.t = "ref"
     THEN LET h1 == Append(w.heap, NewObj(prototype.v))
          IN IF ~CanSet(h1, Len(h1), "$$") THEN Throws(w)
             ELSE Returns(World(JSSet(h1, Len(h1), "$$", JSGet(h1, PrototypeProto, "$$")),
                                w.maps \o <<<<>>, <<>>>>,
                                Append(w.builders, this)), Bld(id))
     ELSE Throws(w)

prototypeProperty(world, b, propertyName, value, propertyDescriptor) ==
  Then(world, LAMBDA w :
    Then(defineProperty(w.heap, w.builders[b].proto, propertyName,
           IF value = Undef THEN propertyDescriptor
           ELSE mixedPropertyDescriptor(<<propertyDescriptor, [value |-> value]>>)),
         LAMBDA r :
           IF r.ok THEN Returns([w EXCEPT !.heap = r.heap], Bld(b)) ELSE Throws(w)))

\* a method declaration that does not look at the number of its arguments
methodUnchecked(w, b, methodName, fn, propertyDescriptor, nargs) ==
  IF methodName = NullName THEN Throws(w)
  ELSE prototypeProperty(w, b, methodName, fn,
         mixedPropertyDescriptor(<<METHOD, propertyDescriptor>>))

method(w, b, methodName, fn, propertyDescriptor, nargs) ==
  IF methodName = NullName \/ nargs <= 1 THEN Throws(w)
  ELSE prototypeProperty(w, b, methodName, fn,
         mixedPropertyDescriptor(<<METHOD, propertyDescriptor>>))

constant(w, b, constantName, value, propertyDescriptor, nargs) ==
  IF constantName = NullName \/ nargs <= 1 THEN Throws(w)
  ELSE Then(prototypeProperty(w, b, Dollar(constantName),
                              createGetterSetter(constantName), GETTER_SETTER),
            LAMBDA r :
              IF r.ok THEN prototypeProperty(r.w, b, constantName, value, propertyDescriptor)
              ELSE r)

\* a raw declaration that stores a copy of an object or array default
rawPropertyCopy(w, b, propertyName, defaultValue, descriptor) ==
  IF propertyName = NullName THEN Throws(w)
  ELSE IF defaultValue.t # "ref"
  THEN prototypeProperty(
         SetEntry(w, w.builders[b].scalarProperties, propertyName,
                  createPropertyDescriptor(REGULAR_PROPERTY, defaultValue, descriptor)),
         b, Dollar(propertyName), createGetterSetter(propertyName), GETTER_SETTER)
  ELSE prototypeProperty(
         SetEntry([w EXCEPT !.heap = Append(@, w.heap[defaultValue.v])],
                  w.builders[b].scalarProperties, propertyName,
                  createPropertyDescriptor(REGULAR_PROPERTY, Ref(Len(w.heap) + 1), descriptor)),
         b, Dollar(propertyName), createGetterSetter(propertyName), GETTER_SETTER)

\* a raw declaration that writes the descriptor and installs no accessor
rawPropertyBare(w, b, propertyName, defaultValue, descriptor) ==
  IF propertyName = NullName THEN Throws(w)
  ELSE Returns(SetEntry(w, w.builders[b].scalarProperties, propertyName,
                        createPropertyDescriptor(REGULAR_PROPERTY, defaultValue, descriptor)),
               Bld(b))

rawProperty(w, b, propertyName, defaultValue, descriptor) ==
  IF propertyName = NullName THEN Throws(w)
  ELSE prototypeProperty(
         SetEntry(w, w.builders[b].scalarProperties, propertyName,
                  createPropertyDescriptor(REGULAR_PROPERTY, defaultValue, descriptor)),
         b, Dollar(propertyName), createGetterSetter(propertyName), GETTER_SETTER)

nested(w, b, propertyName, prototype, propertyDescriptor) ==
  IF propertyName = NullName THEN Throws(w)
  ELSE Then(ObjectBuilder(w, prototype, b), LAMBDA result :
         IF ~result.ok THEN Throws(w)
         ELSE Then(prototypeProperty(
                     SetEntry(result.w, w.builders[b].objectProperties, propertyName,
                              mixedPropertyDescriptor(<<REGULAR_PROPERTY, propertyDescriptor,
                                                        [value |-> result.val]>>)),
                     b, Dollar(propertyName), createGetterSetter(propertyName),
                     GETTER_SETTER),
                   LAMBDA r : IF r.ok THEN Returns(r.w, result.val) ELSE r))

\* a done() that stays on the builder it is called on
doneSelf(w, b) == Bld(b)

done(w, b) == IF w.builders[b].parent = 0 THEN Bld(b) ELSE Bld(w.builders[b].parent)

RECURSIVE property(_, _, _, _, _)
RECURSIVE properties(_, _, _)
RECURSIVE propertiesFrom(_, _, _, _, _)
RECURSIVE mapItems(_, _, _, _)

\* new ObjectBuilder(item.prototype).properties(item).done()
builderOf(w, item) ==
  IF item.t # "ref" THEN Throws(w)
  ELSE Then(ObjectBuilder(w, JSGet(w.heap, item.v, "prototype"), 0), LAMBDA ob :
         IF ~ob.ok THEN Throws(w)
         ELSE Then(properties(ob.w, ob.val.v, item), LAMBDA r :
                IF r.ok THEN Returns(r.w, done(r.w, ob.val.v)) ELSE Throws(w)))

\* defaultValue.map(...): a builder for every object item, the other items as they are
mapItems(w, items, i, out) ==
  IF i > Len(items) THEN Returns(w, Arr(out))
  ELSE IF typeof(items[i]) = "object"
  THEN Then(builderOf(w, items[i]), LAMBDA r :
         IF r.ok
         THEN Then(Append(out, r.val), LAMBDA next : mapItems(r.w, items, i + 1, next))
         ELSE r)
  ELSE Then(Append(out, items[i]), LAMBDA next : mapItems(w, items, i + 1, next))

property(w, b, propertyName, defaultValue, descriptor) ==
  IF propertyName = NullName THEN Throws(w)
  ELSE IF typeof(defaultValue) = "function"
  THEN method(w, b, propertyName, defaultValue, descriptor, 3)
  ELSE IF typeof(defaultValue) = "object"
  THEN Then(IF isArray(w.heap, defaultValue)
            THEN mapItems(w, w.heap[defaultValue.v].elems, 1, <<>>)
            ELSE builderOf(w, defaultValue),
            LAMBDA valueBuilder :
              IF ~valueBuilder.ok THEN Throws(w)
              ELSE prototypeProperty(
                     SetEntry(valueBuilder.w, w.builders[b].objectProperties, propertyName,
                              createPropertyDescriptor(REGULAR_PROPERTY, valueBuilder.val,
                                                       descriptor)),
                     b, Dollar(propertyName), createGetterSetter(propertyName), GETTER_SETTER))
  ELSE prototypeProperty(
         SetEntry(w, w.builders[b].scalarProperties, propertyName,
                  createPropertyDescriptor(REGULAR_PROPERTY, defaultValue, descriptor)),
         b, Dollar(propertyName), createGetterSetter(propertyName), GETTER_SETTER)

propertiesFrom(w, b, o, keys, i) ==
  IF i > Len(keys) THEN Returns(w, Bld(b))
  ELSE Then(property(w, b, keys[i], w.heap[o].props[keys[i]].value, NoDesc), LAMBDA r :
         IF r.ok THEN propertiesFrom(r.w, b, o, keys, i + 1) ELSE r)

\* a properties() that declares the enumerable own properties only
propertiesEnumerable(w, b, propertyPrototype) ==
  IF isNullish(propertyPrototype) THEN Returns(w, Bld(b))
  ELSE IF propertyPrototype.t # "ref" \/ isArray(w.heap, propertyPrototype) THEN Throws(w)
  ELSE Then(SelectSeq(KeysOf(w.heap[propertyPrototype.v].props),
                      LAMBDA n : w.heap[propertyPrototype.v].props[n].enumerable),
            LAMBDA keys : propertiesFrom(w, b, propertyPrototype.v, keys, 1))

\* Object.getOwnPropertyNames of an array holds its indices and "length", for which
\* createGetterSetter has no function to build
properties(w, b, propertyPrototype) ==
  IF isNullish(propertyPrototype) THEN Returns(w, Bld(b))
  ELSE IF propertyPrototype.t # "ref" \/ isArray(w.heap, propertyPrototype) THEN Throws(w)
  ELSE Then(KeysOf(w.heap[propertyPrototype.v].props), LAMBDA keys :
         propertiesFrom(w, b, propertyPrototype.v, keys, 1))

(***************************************************************************)
(* Instantiation.                                                          *)
(***************************************************************************)
RECURSIVE create(_, _)
RECURSIVE descriptors(_, _)
RECURSIVE createItems(_, _, _, _)
RECURSIVE materialize(_, _, _, _)

\* a map that copies the sequence as it is, builders included
createItemsRaw(w, items, i, out) ==
  Returns([w EXCEPT !.heap = Append(@, NewArr(items))], Ref(Len(w.heap) + 1))

\* desc.value.map(...): an instance for every builder of the sequence, in a new array
createItems(w, items, i, out) ==
  IF i > Len(items)
  THEN Returns([w EXCEPT !.heap = Append(@, NewArr(out))], Ref(Len(w.heap) + 1))
  ELSE IF typeof(items[i]) = "object"
  THEN Then(create(w, items[i].v), LAMBDA r :
         IF r.ok
         THEN Then(Append(out, r.val), LAMBDA next : createItems(r.w, items, i + 1, next))
         ELSE r)
  ELSE Then(Append(out, items[i]), LAMBDA next : createItems(w, items, i + 1, next))

\* the forEach of descriptors(): every object property's value replaced by an instance
materialize(w, objectDesc, keys, i) ==
  IF i > Len(keys) THEN [w |-> w, ok |-> TRUE, map |-> objectDesc, alias |-> 0]
  ELSE Then(IF isArray(w.heap, objectDesc[keys[i]]["value"])
            THEN createItems(w, objectDesc[keys[i]]["value"].v, 1, <<>>)
            ELSE create(w, objectDesc[keys[i]]["value"].v),
            LAMBDA r :
              IF r.ok
              THEN Then([objectDesc EXCEPT ![keys[i]]["value"] = r.val], LAMBDA next :
                     materialize(r.w, next, keys, i + 1))
              ELSE [w |-> w, ok |-> FALSE, map |-> objectDesc, alias |-> 0])

\* descriptors(): the map it returns (alias: the builder's own map when it returns that)
descriptors(w, b) ==
  LET this == w.builders[b]
  IN IF DOMAIN w.maps[this.objectProperties] = {}
     THEN [w |-> w, ok |-> TRUE, map |-> w.maps[this.scalarProperties],
           alias |-> this.scalarProperties]
     ELSE Then(mixedPropertyDescriptors(<<w.maps[this.scalarProperties],
                                          w.maps[this.objectProperties]>>),
               LAMBDA objectDesc :
                 Then(KeysOf(w.maps[this.objectProperties]), LAMBDA keys :
                   materialize(w, objectDesc, keys, 1)))

\* a create() that hands out the instance it made before
createCached(w, b) ==
  LET made == {o \in 1..Len(w.heap) : w.heap[o].proto = w.builders[b].proto}
  IN IF made # {} THEN Returns(w, Ref(CHOOSE o \in made : TRUE))
     ELSE Then(descriptors(w, b), LAMBDA d :
            IF ~d.ok THEN Throws(w)
            ELSE Then(ObjectCreate(d.w.heap, w.builders[b].proto, d.map), LAMBDA r :
                   IF r.ok THEN Returns([d.w EXCEPT !.heap = r.heap], r.val)
                   ELSE Throws(w)))

create(w, b) ==
  Then(descriptors(w, b), LAMBDA d :
    IF ~d.ok THEN Throws(w)
    ELSE Then(ObjectCreate(d.w.heap, w.builders[b].proto, d.map), LAMBDA r :
           IF r.ok THEN Returns([d.w EXCEPT !.heap = r.heap], r.val) ELSE Throws(w)))

prototype(w, b) == Ref(w.builders[b].proto)

\* a test that looks at the direct prototype of the object only
createsPrototypeOfDirect(w, b, obj) ==
  obj.t = "ref" /\ w.heap[obj.v].proto = w.builders[b].proto

createsPrototypeOf(w, b, obj) ==
  obj.t = "ref" /\ isPrototypeOf(w.heap, w.builders[b].proto, obj.v)

\* the function createGetterSetter(p) built, called on o with the arguments args
callGetterSetter(h, o, propertyName, args) ==
  IF Len(args) = 0 THEN [heap |-> h, val |-> JSGet(h, o, propertyName)]
  ELSE [heap |-> JSSet(h, o, propertyName, args[1]), val |-> Ref(o)]

\* o.$p(args): o["$p"] looked up and called
callAccessor(h, o, p, args) ==
  Then(JSGet(h, o, Dollar(p)), LAMBDA f :
    IF f.t # "acc" THEN [heap |-> h, ok |-> FALSE, val |-> Thrown]
    ELSE Then(callGetterSetter(h, o, f.v, args), LAMBDA r :
           [heap |-> r.heap, ok |-> TRUE, val |-> r.val]))

\* the initializer of the documentation: function(name){ this.$name(name); }
Initializer == Fn(1)

\* an initializer that counts its calls on the instance:
\* function(){ this.$a(this.$a() + 1); }
Incrementer == Fn(3)

\* fn.apply(o, args)
applyInitializer(h, fn, o, args) ==
  IF fn = Initializer
  THEN callAccessor(h, o, "name", <<IF Len(args) > 0 THEN args[1] ELSE Undef>>)
  ELSE IF fn = Incrementer
  THEN Then(callAccessor(h, o, "a", <<>>), LAMBDA got :
         IF ~got.ok \/ got.val.t # "num" THEN [heap |-> h, ok |-> got.ok, val |-> Undef]
         ELSE callAccessor(h, o, "a", <<Num(got.val.v + 1)>>))
  ELSE [heap |-> h, ok |-> TRUE, val |-> Undef]

\* constructor([fn]): the constructor function it returns holds the map descriptors()
\* returned (descs), the prototype and the initializer
constructor(w, b, fn, nargs) ==
  Then(descriptors(w, b), LAMBDA d :
    IF ~d.ok \/ (nargs > 0 /\ typeof(fn) # "function") THEN Throws(w)
    ELSE Returns([d.w EXCEPT !.maps = IF d.alias # 0 THEN @ ELSE Append(@, d.map)],
                 [descs |-> IF d.alias # 0 THEN d.alias ELSE Len(w.maps) + 1,
                  proto |-> w.builders[b].proto,
                  fn |-> IF nargs > 0 THEN fn ELSE Undef]))

\* a constructor function that applies the initializer before baseConstructor
constructInitFirst(w, C, args) ==
  Then(Append(w.heap, NewObj(C.proto)), LAMBDA h1 :
    Then(applyInitializer(h1, C.fn, Len(h1), args), LAMBDA init :
      IF ~init.ok THEN Throws(w)
      ELSE Then(defineProperties(init.heap, Len(h1), w.maps[C.descs]), LAMBDA base :
             IF ~base.ok THEN Throws(w)
             ELSE Returns([w EXCEPT !.heap = base.heap], Ref(Len(h1))))))

\* new C(args): baseConstructor defines the properties of descs on the new object,
\* then the initializer, if any, is applied to it
construct(w, C, args) ==
  Then(Append(w.heap, NewObj(C.proto)), LAMBDA h1 :
    Then(defineProperties(h1, Len(h1), w.maps[C.descs]), LAMBDA base :
      IF ~base.ok THEN Throws(w)
      ELSE IF C.fn = Undef THEN Returns([w EXCEPT !.heap = base.heap], Ref(Len(h1)))
      ELSE Then(applyInitializer(base.heap, C.fn, Len(h1), args), LAMBDA init :
             IF ~init.ok THEN Throws(w)
             ELSE Returns([w EXCEPT !.heap = init.heap], Ref(Len(h1))))))

(***************************************************************************)
(* The caller.  The heap starts with Prototype.prototype (object 1, which  *)
(* holds $$) and the caller's literals: a plain prototype object, the      *)
(* default values {a: 42}, [{a: 42}, 17] and {name: {a: 42}} of the tests. *)
(* handles holds the builders the caller was handed, each with the builder *)
(* whose nested() call returned it (0: the factory returned it), insts the *)
(* instances it was handed, ctors the constructor functions constructor()  *)
(* returned, ret the last call and what it returned.                       *)
(***************************************************************************)
PlainProto == 2
ObjA == 3
ArrA == 4
ObjName == 5

InitHeap ==
  << [NewObj(0) EXCEPT !.props = ("$$" :> Data(Fn(0)))],
     [NewObj(0) EXCEPT !.props = [foo |-> Data(Fn(2))]],
     [NewObj(0) EXCEPT !.props = [a |-> Data(Num(42))]],
     NewArr(<<Ref(ObjA), Num(17)>>),
     [NewObj(0) EXCEPT !.props = [name |-> Data(Ref(ObjA))]] >>

Call(op, b, o, name, arg, val, ok) ==
  [op |-> op, b |-> b, o |-> o, name |-> name, arg |-> arg, val |-> val, ok |-> ok]

Init ==
  /\ heap = InitHeap
  /\ maps = <<>>
  /\ builders = <<>>
  /\ ctors = <<>>
  /\ handles = <<>>
  /\ insts = <<>>
  /\ ret = Call("init", 0, 0, "", Undef, Undef, TRUE)

W == World(heap, maps, builders)

Fits(w) == Len(w.heap) <= MaxHeap /\ Len(w.builders) <= MaxBuilders

Commit(w) ==
  /\ heap' = w.heap
  /\ maps' = w.maps
  /\ builders' = w.builders

BuilderIds == DOMAIN handles

Handle(b, from) == [x \in DOMAIN handles \cup {b} |-> IF x = b THEN from ELSE handles[x]]

\* the builders the factory handed out
Roots == {b \in DOMAIN handles : handles[b] = 0}

\* the objects reachable from object o through property values and array elements
RECURSIVE ReachFrom(_, _, _)
ReachFrom(h, frontier, seen) ==
  IF frontier = {} THEN seen
  ELSE LET values == UNION {{h[o].props[n].value : n \in DOMAIN h[o].props}
                             \cup {h[o].elems[k] : k \in 1..Len(h[o].elems)} : o \in frontier}
           refs == {x.v : x \in {y \in values : y.t = "ref"}}
       IN ReachFrom(h, refs \ (seen \cup frontier), seen \cup frontier)

Reach(h, o) == ReachFrom(h, {o}, {})

\* the objects the caller reaches from the instances it holds
Held == UNION {Reach(heap, insts[k].o) : k \in 1..Len(insts)}

\* builderFactory(aPrototype)
Factory(aPrototype) ==
  \E r \in {ObjectBuilder(W, aPrototype, 0)} :
     /\ Fits(r.w)
     /\ Commit(r.w)
     /\ ret' = Call("builder", 0, 0, "", aPrototype, r.val, r.ok)
     /\ handles' = IF r.ok THEN Handle(r.val.v, 0) ELSE handles
     /\ UNCHANGED <<ctors, insts>>

Property(b, p, d, desc) ==
  \E r \in {property(W, b, p, d, desc)} :
     /\ Fits(r.w)
     /\ Commit(r.w)
     /\ ret' = Call("property", b, 0, p, d, r.val, r.ok) @@ [desc |-> desc]
     /\ UNCHANGED <<ctors, handles, insts>>

Properties(b, d) ==
  \E r \in {properties(W, b, d)} :
     /\ Fits(r.w)
     /\ Commit(r.w)
     /\ ret' = Call("properties", b, 0, "", d, r.val, r.ok)
     /\ UNCHANGED <<ctors, handles, insts>>

RawProperty(b, p, d, desc) ==
  \E r \in {rawProperty(W, b, p, d, desc)} :
     /\ Commit(r.w)
     /\ ret' = Call("rawProperty", b, 0, p, d, r.val, r.ok) @@ [desc |-> desc]
     /\ UNCHANGED <<ctors, handles, insts>>

Method(b, p, fn, desc, nargs) ==
  \E r \in {method(W, b, p, fn, desc, nargs)} :
     /\ Commit(r.w)
     /\ ret' = Call("method", b, 0, p, fn, r.val, r.ok) @@ [nargs |-> nargs]
     /\ UNCHANGED <<ctors, handles, insts>>

Constant(b, p, v, desc, nargs) ==
  \E r \in {constant(W, b, p, v, desc, nargs)} :
     /\ Commit(r.w)
     /\ ret' = Call("constant", b, 0, p, v, r.val, r.ok) @@ [nargs |-> nargs]
     /\ UNCHANGED <<ctors, handles, insts>>

Nested(b, p, aPrototype, desc) ==
  \E r \in {nested(W, b, p, aPrototype, desc)} :
     /\ Fits(r.w)
     /\ Commit(r.w)
     /\ ret' = Call("nested", b, 0, p, aPrototype, r.val, r.ok)
     /\ handles' = IF r.ok THEN Handle(r.val.v, b) ELSE handles
     /\ UNCHANGED <<ctors, insts>>

Done(b) ==
  /\ ret' = Call("done", b, 0, "", Undef, done(W, b), TRUE)
  /\ UNCHANGED <<heap, maps, builders, ctors, handles, insts>>

Create(b) ==
  \E r \in {create(W, b)} :
     /\ Len(insts) < MaxInsts
     /\ Fits(r.w)
     /\ Commit(r.w)
     /\ ret' = Call("create", b, 0, "", Undef, r.val, r.ok)
     /\ insts' = IF r.ok THEN Append(insts, [o |-> r.val.v, b |-> b, c |-> 0]) ELSE insts
     /\ UNCHANGED <<ctors, handles>>

\* o.$p()
Get(o, p) ==
  \E r \in {callAccessor(heap, o, p, <<>>)} :
     /\ ret' = Call("get", 0, o, p, Undef, r.val, r.ok)
     /\ UNCHANGED <<heap, maps, builders, ctors, handles, insts>>

\* o.$p(v)
Set(o, p, v) ==
  \E r \in {callAccessor(heap, o, p, <<v>>)} :
     /\ heap' = r.heap
     /\ ret' = Call("set", 0, o, p, v, r.val, r.ok)
     /\ UNCHANGED <<maps, builders, ctors, handles, insts>>

\* o.p = v in the caller's strict code: it throws when the assignment is not allowed
Assign(o, p, v) ==
  /\ heap' = JSSet(heap, o, p, v)
  /\ ret' = Call("assign", 0, o, p, v, IF CanSet(heap, o, p) THEN v ELSE Thrown,
                 CanSet(heap, o, p))
  /\ UNCHANGED <<maps, builders, ctors, handles, insts>>

\* a.push(v) on an array
Push(o, v) ==
  /\ heap[o].kind = "arr"
  /\ Len(heap[o].elems) < MaxLen
  /\ heap' = [heap EXCEPT ![o].elems = Append(@, v)]
  /\ ret' = Call("push", 0, o, "", v, Num(Len(heap[o].elems) + 1), TRUE)
  /\ UNCHANGED <<maps, builders, ctors, handles, insts>>

Constructor(b, fn, nargs) ==
  \E r \in {constructor(W, b, fn, nargs)} :
     /\ Len(ctors) < MaxCtors
     /\ Fits(r.w)
     /\ Commit(r.w)
     /\ ret' = Call("constructor", b, 0, "", fn, IF r.ok THEN Fn(Len(ctors) + 10) ELSE Thrown, r.ok)
     /\ ctors' = IF r.ok THEN Append(ctors, r.val) ELSE ctors
     /\ UNCHANGED <<handles, insts>>

\* new C(arg) for the c-th constructor function
New(c, args) ==
  \E r \in {construct(W, ctors[c], args)} :
     /\ Len(insts) < MaxInsts
     /\ Fits(r.w)
     /\ Commit(r.w)
     /\ ret' = Call("new", c, 0, "", IF Len(args) > 0 THEN args[1] ELSE Undef, r.val, r.ok)
     /\ insts' = IF r.ok THEN Append(insts, [o |-> r.val.v, b |-> 0, c |-> c]) ELSE insts
     /\ UNCHANGED <<ctors, handles>>

(***************************************************************************)
(* What an instance of builder b is expected to be: its prototype is the   *)
(* builder's, its own properties are the declared ones, a scalar property  *)
(* holds the declared default, an object property an instance of the child *)
(* builder, an array property an array of the same length with an instance *)
(* for every child builder and the scalars as they are.                    *)
(***************************************************************************)
RECURSIVE IsInstanceOf(_, _, _)
IsInstanceOf(h, x, b) ==
  LET scalar == maps[builders[b].scalarProperties]
      object == maps[builders[b].objectProperties]
      isItem(y, item) ==
        IF item.t = "bld" THEN IsInstanceOf(h, y, item.v) ELSE y = item
  IN /\ x.t = "ref"
     /\ h[x.v].kind = "obj"
     /\ h[x.v].proto = builders[b].proto
     /\ DOMAIN h[x.v].props = DOMAIN scalar \cup DOMAIN object
     /\ \A p \in DOMAIN scalar \ DOMAIN object :
          h[x.v].props[p].value =
            IF "value" \in DOMAIN scalar[p] THEN scalar[p]["value"] ELSE Undef
     /\ \A p \in DOMAIN object :
          LET y == h[x.v].props[p].value
              d == object[p]["value"]
          IN IF d.t = "seq"
             THEN /\ y.t = "ref"
                  /\ h[y.v].kind = "arr"
                  /\ Len(h[y.v].elems) = Len(d.v)
                  /\ \A k \in 1..Len(d.v) : isItem(h[y.v].elems[k], d.v[k])
             ELSE IsInstanceOf(h, y, d.v)

InstIds == 1..Len(insts)

(***************************************************************************)
(* SpecObject: a builder with object-valued properties, declared with the  *)
(* object defaults {a: 42} and {name: {a: 42}} or through nested on the    *)
(* builder the factory made, the instances create() makes of that builder, *)
(* and accessor writes on the instances and on their nested values.        *)
(***************************************************************************)
NextObject ==
  \/ Cardinality(Roots) < MaxRoots /\ Factory(Undef)
  \/ \E b \in BuilderIds, d \in {Ref(ObjA), Ref(ObjName)} : Property(b, "name", d, NoDesc)
  \/ \E b \in Roots : Properties(b, Ref(ObjName))
  \/ \E b \in Roots : Nested(b, "name", Undef, NoDesc)
  \/ \E b \in BuilderIds : Property(b, "a", Num(42), NoDesc)
  \/ \E b \in Roots : Create(b)
  \/ \E o \in Held : Set(o, "a", Num(17))

SpecObject == Init /\ [][NextObject]_vars

\* C1: two instances made by separate create() calls hold distinct objects for an
\* object-valued property at every depth: a created instance holds the declared
\* defaults in objects no other instance reaches, and an accessor write on an object
\* one instance reaches leaves every object of every other instance as it was.
C1_FreshDefaults ==
  ret.op = "create" /\ ret.ok =>
    /\ IsInstanceOf(heap, ret.val, ret.b)
    /\ \A i, j \in InstIds :
         i # j => Reach(heap, insts[i].o) \cap Reach(heap, insts[j].o) = {}

C1_WriteIsLocal ==
  ret'.op = "set" =>
    \A i, j \in InstIds :
      i # j /\ ret'.o \in Reach(heap, insts[i].o) =>
        \A k \in Reach(heap, insts[j].o) : heap'[k] = heap[k]

C1_IndependentObjects == [](C1_FreshDefaults) /\ [][C1_WriteIsLocal]_vars

\* two instances with an object-valued property, one written to 17, the other still 42
C1_Witness ==
  /\ ret.op = "set"
  /\ \E i, j \in InstIds :
       /\ i # j
       /\ JSGet(heap, insts[i].o, "name").t = "ref"
       /\ JSGet(heap, insts[j].o, "name").t = "ref"
       /\ JSGet(heap, JSGet(heap, insts[i].o, "name").v, "a") = Num(17)
       /\ JSGet(heap, JSGet(heap, insts[j].o, "name").v, "a") = Num(42)

(***************************************************************************)
(* SpecCtor: a builder with an object-valued property, the constructor     *)
(* functions constructor() exports from it, with and without initializer,  *)
(* the instances new makes with them, and accessor writes on them.         *)
(***************************************************************************)
NextCtor ==
  \/ Cardinality(Roots) < MaxRoots /\ Factory(Undef)
  \/ \E b \in BuilderIds : Property(b, "name", Ref(ObjA), NoDesc)
  \/ \E b \in BuilderIds : Property(b, "a", Num(42), NoDesc)
  \/ \E b \in BuilderIds : Constructor(b, Undef, 0)
  \/ \E b \in BuilderIds : Constructor(b, Initializer, 1)
  \/ \E c \in 1..Len(ctors) : New(c, <<>>)
  \/ \E o \in Held : Set(o, "a", Num(17))

SpecCtor == Init /\ [][NextCtor]_vars

\* C2: two instances made by the same exported constructor function never share the
\* storage of an object-valued property: no object is reached from both.
C2_ConstructedIndependent ==
  \A i, j \in InstIds :
    i # j /\ insts[i].c # 0 /\ insts[i].c = insts[j].c =>
      Reach(heap, insts[i].o) \cap Reach(heap, insts[j].o) = {}

(***************************************************************************)
(* SpecArray: a builder with the array-valued property name, declared with *)
(* the default [{a: 42}, 17], the instances create() makes of it, accessor *)
(* writes on the instances and on the elements of their arrays, and push   *)
(* on their arrays.                                                        *)
(***************************************************************************)
NextArray ==
  \/ Cardinality(Roots) < MaxRoots /\ Factory(Undef)
  \/ \E b \in BuilderIds : Property(b, "name", Ref(ArrA), NoDesc)
  \/ \E b \in BuilderIds : Property(b, "b", Num(17), NoDesc)
  \/ \E b \in Roots : Create(b)
  \/ \E o \in Held : Get(o, "name")
  \/ \E o \in Held, p \in {"a", "b"} : Set(o, p, Num(17))
  \/ \E o \in Held, v \in {Num(7), Num(8)} : Push(o, v)

SpecArray == Init /\ [][NextArray]_vars

\* the array the instance o holds for the property name
ArrayOf(h, o) == h[o].props["name"].value

HasArray(b) == "name" \in DOMAIN maps[builders[b].objectProperties]

\* C3: for a property declared with an array default every create() yields a new
\* array of the default's length and order, a fresh instance exposing the accessors
\* of the element for every object element and the scalar elements as they are; the
\* arrays of two instances share nothing, and a push on the array of one instance or
\* an accessor write on one of its elements leaves the other instances' arrays alone.
C3_CreatedArray ==
  ret.op = "create" /\ ret.ok /\ HasArray(ret.b) =>
    LET default == heap[ArrA].elems
        made == ArrayOf(heap, ret.val.v)
    IN /\ IsInstanceOf(heap, ret.val, ret.b)
       /\ made.t = "ref"
       /\ made.v > Len(InitHeap)
       /\ heap[made.v].kind = "arr"
       /\ Len(heap[made.v].elems) = Len(default)
       /\ \A k \in 1..Len(default) :
            LET e == default[k]
                y == heap[made.v].elems[k]
            IN IF typeof(e) = "object"
               THEN /\ y.t = "ref"
                    /\ \A key \in DOMAIN heap[e.v].props :
                         callAccessor(heap, y.v, key, <<>>) =
                           [heap |-> heap, ok |-> TRUE, val |-> heap[e.v].props[key].value]
               ELSE y = e

C3_ArraysDisjoint ==
  \A i, j \in InstIds :
    i # j => Reach(heap, insts[i].o) \cap Reach(heap, insts[j].o) = {}

C3_ArrayWriteIsLocal ==
  ret'.op \in {"set", "push"} =>
    \A i, j \in InstIds :
      i # j /\ ret'.o \in Reach(heap, insts[i].o) =>
        \A k \in Reach(heap, insts[j].o) : heap'[k] = heap[k]

C3_FreshArrays ==
  [](C3_CreatedArray /\ C3_ArraysDisjoint) /\ [][C3_ArrayWriteIsLocal]_vars

\* two instances, one with a value pushed on its array and its element written to 17,
\* the other with the array as it was created
C3_Witness ==
  \E i, j \in InstIds :
    /\ i # j
    /\ HasArray(insts[i].b)
    /\ insts[i].b = insts[j].b
    /\ "name" \in DOMAIN heap[insts[i].o].props \cap DOMAIN heap[insts[j].o].props
    /\ ret.op \in {"set", "push"}
    /\ ret.o \in Reach(heap, insts[i].o)
    /\ Len(heap[ArrayOf(heap, insts[i].o).v].elems) = 3
    /\ JSGet(heap, heap[ArrayOf(heap, insts[i].o).v].elems[1].v, "a") = Num(17)
    /\ Len(heap[ArrayOf(heap, insts[j].o).v].elems) = 2
    /\ JSGet(heap, heap[ArrayOf(heap, insts[j].o).v].elems[1].v, "a") = Num(42)
    /\ heap[ArrayOf(heap, insts[j].o).v].elems[2] = Num(17)

(***************************************************************************)
(* SpecScalar: a builder with the property a, declared by property with a  *)
(* scalar default, by rawProperty or by nested, and the scalar property b  *)
(* that its descriptor declares not writable, the instances create() makes *)
(* of it, and the accessor calls o.$p() and o.$p(v) on the instances.      *)
(***************************************************************************)
Instances == {insts[k].o : k \in InstIds}

NextScalar ==
  \/ Cardinality(Roots) < MaxRoots /\ Factory(Undef)
  \/ \E b \in Roots : Property(b, "a", Num(42), NoDesc)
  \/ \E b \in Roots : Property(b, "b", Num(17), [writable |-> FALSE])
  \/ \E b \in Roots : RawProperty(b, "a", Ref(ObjA), NoDesc)
  \/ \E b \in Roots : Len(builders) - Cardinality(Roots) < MaxNested
                        /\ Nested(b, "a", Undef, NoDesc)
  \/ \E b \in Roots : Create(b)
  \/ \E o \in Instances, p \in {"a", "b"} : Get(o, p)
  \/ \E o \in Instances, p \in {"a", "b"}, v \in {Num(17), Undef} : Set(o, p, v)

SpecScalar == Init /\ [][NextScalar]_vars

\* the builder that made the instance o
BuilderOf(o) == insts[CHOOSE k \in InstIds : insts[k].o = o].b

\* p is held in the descriptor maps of the builder of the instance o
DeclaredOn(o, p) ==
  /\ o \in Instances
  /\ p \in DOMAIN maps[builders[BuilderOf(o)].scalarProperties]
            \cup DOMAIN maps[builders[BuilderOf(o)].objectProperties]

\* C4 (for writable properties): for a name p held in the builder's descriptor maps
\* and an instance i, i.$p() returns the value stored in i.p and changes nothing;
\* when i.p is writable, i.$p(v) stores v in i.p and returns i, and the next i.$p()
\* returns v, undefined included.
C4_Get ==
  ret'.op = "get" /\ DeclaredOn(ret'.o, ret'.name) =>
    /\ ret'.ok
    /\ ret'.val = JSGet(heap, ret'.o, ret'.name)
    /\ heap' = heap

C4_Set ==
  ret'.op = "set" /\ DeclaredOn(ret'.o, ret'.name) /\ CanSet(heap, ret'.o, ret'.name) =>
    /\ ret'.ok
    /\ ret'.val = Ref(ret'.o)
    /\ ret'.name \in DOMAIN heap'[ret'.o].props
    /\ heap'[ret'.o].props[ret'.name].value = ret'.arg

C4_SetThenGet ==
  /\ ret.op = "set" /\ ret'.op = "get"
  /\ ret'.o = ret.o /\ ret'.name = ret.name
  /\ DeclaredOn(ret.o, ret.name)
  /\ CanSet(heap, ret.o, ret.name)
  => ret'.val = ret.arg

ScalarsOf(b) ==
  DOMAIN maps[builders[b].scalarProperties] \ DOMAIN maps[builders[b].objectProperties]

\* C5: property(p, d) with a scalar d records d as the default of p; an accessor
\* write on one instance changes that instance only, and neither it nor create()
\* changes the builder's maps or prototype; every instance create() returns starts
\* with the recorded default of every scalar property, whatever was written before.
C5_Declared ==
  ret'.op = "property" /\ ret'.ok =>
    /\ ret'.name \in DOMAIN maps'[builders'[ret'.b].scalarProperties]
    /\ maps'[builders'[ret'.b].scalarProperties][ret'.name]["value"] = ret'.arg

C5_SetIsLocal ==
  ret'.op = "set" =>
    /\ Len(heap') = Len(heap)
    /\ \A k \in 1..Len(heap) : k # ret'.o => heap'[k] = heap[k]

C5_DefaultKept ==
  ret'.op \in {"set", "get", "create"} =>
    /\ maps' = maps
    /\ builders' = builders
    /\ \A b \in 1..Len(builders) : heap'[builders[b].proto] = heap[builders[b].proto]

C5_StartsWithDefault ==
  ret.op = "create" /\ ret.ok =>
    \A p \in ScalarsOf(ret.b) :
      /\ p \in DOMAIN heap[ret.val.v].props
      /\ heap[ret.val.v].props[p].value = maps[builders[ret.b].scalarProperties][p]["value"]

C5_ScalarIndependent ==
  [](C5_StartsWithDefault) /\ [][C5_Declared /\ C5_SetIsLocal /\ C5_DefaultKept]_vars

\* an instance created after the first was written to 17 starts with the default 42
C5_Witness ==
  /\ ret.op = "create" /\ ret.ok
  /\ Len(insts) = 2
  /\ insts[1].b = insts[2].b
  /\ "a" \in ScalarsOf(ret.b)
  /\ "a" \in DOMAIN heap[insts[1].o].props
  /\ heap[insts[1].o].props["a"].value = Num(17)
  /\ heap[insts[2].o].props["a"].value = Num(42)

(***************************************************************************)
(* SpecConstant: a builder and a builder derived from it, the constant con *)
(* and the property con declared on them, the instances create() makes of  *)
(* them, and on the instances the accessor calls i.$con(), i.$con(17) and  *)
(* the assignment i.con = 17 of the caller's strict code.  The caller does *)
(* not declare the property con on a builder it declared the constant on.  *)
(***************************************************************************)
\* the prototype of builder b holds the constant c
HasConstant(b, c) ==
  /\ c \in DOMAIN heap[builders[b].proto].props
  /\ ~heap[builders[b].proto].props[c].writable

NextConstant ==
  \/ Cardinality(Roots) < MaxRoots /\ Factory(Undef)
  \/ \E b \in Roots : Cardinality(Roots) < MaxRoots + MaxDerived /\ Factory(Bld(b))
  \/ \E b \in Roots : ~HasConstant(b, "con") /\ Property(b, "con", Num(5), NoDesc)
  \/ \E b \in Roots : Constant(b, "con", Num(42), NoDesc, 2)
  \/ \E b \in Roots : Create(b)
  \/ \E o \in Instances : Get(o, "con")
  \/ \E o \in Instances : Set(o, "con", Num(17))
  \/ \E o \in Instances : Assign(o, "con", Num(17))

SpecConstant == Init /\ [][NextConstant]_vars

\* C6: after constant(c, v), every instance the builder creates reads i.c = v
\* (the first part of the claim: the value that a failed assignment is to leave).
C6_ConstantReads ==
  ret.op = "create" /\ ret.ok /\ HasConstant(ret.b, "con") =>
    JSGet(heap, ret.val.v, "con") = heap[builders[ret.b].proto].props["con"].value

\* C7: for a constant c, i.$c(w) fails as the assignment i.c = w does: it does not
\* return.
C7_SetterFails ==
  ret.op = "set" /\ ret.o \in Instances /\ ~CanSet(heap, ret.o, ret.name) => ~ret.ok

(***************************************************************************)
(* SpecInherit: a builder, a builder derived from it, the declarations     *)
(* properties({a: 42}), property("b", 17), property("a", 5) and            *)
(* property("name", {a: 42}) on either, before and after the derivation,   *)
(* and the instances create() makes of them.  The caller declares name on  *)
(* a builder that does not hold it.                                        *)
(***************************************************************************)
ScalarMap(b) == maps[builders[b].scalarProperties]
ObjectMap(b) == maps[builders[b].objectProperties]

NextInherit ==
  \/ Cardinality(Roots) < MaxRoots /\ Factory(Undef)
  \/ \E b \in Roots : Cardinality(Roots) < MaxRoots + MaxDerived /\ Factory(Bld(b))
  \/ \E b \in Roots : Properties(b, Ref(ObjA))
  \/ \E b \in Roots : Property(b, "b", Num(17), NoDesc)
  \/ \E b \in Roots : Property(b, "a", Num(5), NoDesc)
  \/ \E b \in Roots : "name" \notin DOMAIN ObjectMap(b)
                        /\ Property(b, "name", Ref(ObjA), NoDesc)
  \/ \E b \in Roots : Len(insts) < MaxInheritInsts /\ Create(b)

SpecInherit == Init /\ [][NextInherit]_vars

\* builder d was made of builder s
DerivedFrom(d, s) == heap[builders[d].proto].proto = builders[s].proto

\* C8: a builder made of a builder holds the properties the source held when it
\* was made, with their defaults, and its prototype is chained to the source's; an
\* instance a builder creates has an own property with the held default for every
\* name the builder holds and a $name accessor that returns it.
C8_Derive ==
  ret'.op = "builder" /\ ret'.ok /\ ret'.arg.t = "bld" =>
    /\ maps'[builders'[ret'.val.v].scalarProperties] = ScalarMap(ret'.arg.v)
    /\ maps'[builders'[ret'.val.v].objectProperties] = ObjectMap(ret'.arg.v)
    /\ heap'[builders'[ret'.val.v].proto].proto = builders[ret'.arg.v].proto

C8_InstanceOfMaps ==
  ret.op = "create" /\ ret.ok =>
    \A p \in DOMAIN ScalarMap(ret.b) \ DOMAIN ObjectMap(ret.b) :
      /\ p \in DOMAIN heap[ret.val.v].props
      /\ heap[ret.val.v].props[p].value = ScalarMap(ret.b)[p]["value"]
      /\ callAccessor(heap, ret.val.v, p, <<>>) =
           [heap |-> heap, ok |-> TRUE, val |-> ScalarMap(ret.b)[p]["value"]]

C8_Inherits == [](C8_InstanceOfMaps) /\ [][C8_Derive]_vars

\* an instance of the derived builder with the inherited a = 42 and its own b = 17
C8_Witness ==
  /\ ret.op = "create" /\ ret.ok
  /\ \E s \in Roots :
       /\ s # ret.b
       /\ DerivedFrom(ret.b, s)
       /\ "a" \in DOMAIN ScalarMap(s)
       /\ "b" \notin DOMAIN ScalarMap(s)
  /\ callAccessor(heap, ret.val.v, "a", <<>>).val = Num(42)
  /\ callAccessor(heap, ret.val.v, "b", <<>>).val = Num(17)

\* C9: a declaration on a builder, a redeclaration of an inherited name included,
\* leaves the maps and the prototype of every other builder unchanged, whether the
\* other is the source it was made of or a builder made of it.
C9_DeclarationIsLocal ==
  ret'.op \in {"property", "properties"} =>
    \A c \in 1..Len(builders) :
      c # ret'.b =>
        /\ builders'[c] = builders[c]
        /\ maps'[builders[c].scalarProperties] = ScalarMap(c)
        /\ maps'[builders[c].objectProperties] = ObjectMap(c)
        /\ heap'[builders[c].proto] = heap[builders[c].proto]

C9_SourceInstances ==
  ret.op = "create" /\ ret.ok => IsInstanceOf(heap, ret.val, ret.b)

C9_Snapshot == [](C9_SourceInstances) /\ [][C9_DeclarationIsLocal]_vars

\* a was redeclared on the derived builder and b declared on the source after the
\* derivation: the source still holds a = 42, the derived builder holds no b
C9_Witness ==
  \E s, d \in Roots :
    /\ s # d
    /\ DerivedFrom(d, s)
    /\ "a" \in DOMAIN ScalarMap(s) \cap DOMAIN ScalarMap(d)
    /\ ScalarMap(s)["a"]["value"] = Num(42)
    /\ ScalarMap(d)["a"]["value"] = Num(5)
    /\ "b" \in DOMAIN ScalarMap(s)
    /\ "b" \notin DOMAIN ScalarMap(d)
    /\ \E k \in InstIds :
         insts[k].b = s /\ JSGet(heap, insts[k].o, "a") = Num(42)
                        /\ JSGet(heap, insts[k].o, "b") = Num(17)

(***************************************************************************)
(* SpecNested: a builder, the builders nested("b") returns on it and on    *)
(* the builders nested returned, property("c", 2) and done() on any of     *)
(* them, the instances create() makes of the first builder, and accessor   *)
(* reads on the instances and on their nested values.                      *)
(***************************************************************************)
NextNested ==
  \/ Cardinality(Roots) < MaxRoots /\ Factory(Undef)
  \/ \E b \in BuilderIds : Nested(b, "b", Undef, NoDesc)
  \/ \E b \in BuilderIds : Property(b, "c", Num(2), NoDesc)
  \/ \E b \in BuilderIds : Done(b)
  \/ \E b \in Roots : Create(b)
  \/ \E o \in Held, p \in {"b", "c"} : Get(o, p)

SpecNested == Init /\ [][NextNested]_vars

\* how many nested calls led from a builder of the factory to the builder b
RECURSIVE Depth(_)
Depth(b) == IF handles[b] = 0 THEN 0 ELSE 1 + Depth(handles[b])

\* the builder of the factory the builder b was nested in
RECURSIVE RootOf(_)
RootOf(b) == IF handles[b] = 0 THEN b ELSE RootOf(handles[b])

\* the builder k done() calls lead to from the builder b
RECURSIVE DoneTimes(_, _)
DoneTimes(b, k) == IF k = 0 THEN b ELSE DoneTimes(done(W, b).v, k - 1)

\* C10: nested(name) returns a new builder that it registers under name in the
\* builder it is called on and in no other; done() on a builder nested returned
\* returns the builder nested was called on, done() on a builder of the factory the
\* builder itself, so k done calls undo k nested calls; a declaration on a nested
\* builder lands on that builder only, and an instance of the root exposes it
\* through the chain of accessors.
C10_NestedRegisters ==
  ret'.op = "nested" /\ ret'.ok =>
    /\ ret'.val = Bld(Len(builders) + 1)
    /\ Len(builders') = Len(builders) + 1
    /\ maps'[builders[ret'.b].objectProperties][ret'.name]["value"] = ret'.val
    /\ DOMAIN maps'[builders'[ret'.val.v].scalarProperties] = {}
    /\ DOMAIN maps'[builders'[ret'.val.v].objectProperties] = {}
    /\ \A c \in 1..Len(builders) :
         c # ret'.b => /\ maps'[builders[c].scalarProperties] = ScalarMap(c)
                       /\ maps'[builders[c].objectProperties] = ObjectMap(c)

C10_DoneReturnsParent ==
  /\ ret.op = "done" =>
       ret.val = IF handles[ret.b] = 0 THEN Bld(ret.b) ELSE Bld(handles[ret.b])
  /\ \A b \in BuilderIds : DoneTimes(b, Depth(b)) = RootOf(b)

C10_LandsOnChild ==
  ret'.op = "property" /\ ret'.ok =>
    /\ ret'.name \in DOMAIN maps'[builders[ret'.b].scalarProperties]
    /\ \A c \in 1..Len(builders) :
         c # ret'.b => /\ maps'[builders[c].scalarProperties] = ScalarMap(c)
                       /\ maps'[builders[c].objectProperties] = ObjectMap(c)
                       /\ heap'[builders[c].proto] = heap[builders[c].proto]

\* the value the chain of accessors $b()...$b().$c() reads on the instance x of b
RECURSIVE Exposes(_, _)
Exposes(x, b) ==
  /\ x.t = "ref"
  /\ \A q \in DOMAIN ScalarMap(b) \ DOMAIN ObjectMap(b) :
       callAccessor(heap, x.v, q, <<>>) =
         [heap |-> heap, ok |-> TRUE, val |-> ScalarMap(b)[q]["value"]]
  /\ \A p \in DOMAIN ObjectMap(b) :
       /\ callAccessor(heap, x.v, p, <<>>).ok
       /\ Exposes(callAccessor(heap, x.v, p, <<>>).val, ObjectMap(b)[p]["value"].v)

C10_InstanceExposes ==
  ret.op = "create" /\ ret.ok => Exposes(ret.val, ret.b)

C10_NestedDone ==
  /\ [](C10_DoneReturnsParent /\ C10_InstanceExposes)
  /\ [][C10_NestedRegisters /\ C10_LandsOnChild]_vars

\* done() was called on a builder two nested calls deep that holds c, and returned
\* the builder one level up; an instance of the root reads $b().$b().$c() = 2
C10_Witness ==
  /\ ret.op = "done"
  /\ Depth(ret.b) = 2
  /\ ret.val = Bld(handles[ret.b])
  /\ "c" \in DOMAIN ScalarMap(ret.b)
  /\ "c" \notin DOMAIN ScalarMap(handles[ret.b])
  /\ \E k \in InstIds :
       /\ insts[k].b = RootOf(ret.b)
       /\ Exposes(Ref(insts[k].o), insts[k].b)
       /\ JSGet(heap, JSGet(heap, JSGet(heap, insts[k].o, "b").v, "b").v, "c") = Num(2)

(***************************************************************************)
(* SpecProto: a builder made of nothing or of the plain object, a builder  *)
(* derived from it, the property a, and the instances made of them in the  *)
(* three ways: create(), new with an exported constructor function, and    *)
(* Object.create(b.prototype(), b.descriptors()); createsPrototypeOf is    *)
(* asked of either builder about the instances, the object {a: 42} and a   *)
(* number.                                                                 *)
(***************************************************************************)
\* Object.create(b.prototype(), b.descriptors()) in the caller's code
Manual(b) ==
  \E d \in {descriptors(W, b)} :
    \E r \in {ObjectCreate(d.w.heap, prototype(d.w, b).v, d.map)} :
       /\ Len(insts) < MaxInsts
       /\ d.ok /\ r.ok
       /\ Len(r.heap) <= MaxHeap
       /\ heap' = r.heap
       /\ ret' = Call("manual", b, 0, "", Undef, r.val, TRUE)
       /\ insts' = Append(insts, [o |-> r.val.v, b |-> b, c |-> 0])
       /\ UNCHANGED <<maps, builders, ctors, handles>>

\* b.createsPrototypeOf(x)
CreatesPrototypeOf(b, x) ==
  /\ ret' = Call("createsPrototypeOf", b, 0, "", x, Bool(createsPrototypeOf(W, b, x)), TRUE)
  /\ UNCHANGED <<heap, maps, builders, ctors, handles, insts>>

NextProto ==
  \/ \E p \in {Undef, Ref(PlainProto)} : Cardinality(Roots) < MaxRoots /\ Factory(p)
  \/ \E b \in Roots : Cardinality(Roots) < MaxRoots + MaxDerived /\ Factory(Bld(b))
  \/ \E b \in Roots : Property(b, "a", Num(42), NoDesc)
  \/ \E b \in Roots : Create(b)
  \/ \E b \in Roots : Manual(b)
  \/ \E b \in Roots : Constructor(b, Undef, 0)
  \/ \E c \in 1..Len(ctors) : New(c, <<>>)
  \/ \E b \in Roots, x \in {Ref(o) : o \in Instances} \cup {Ref(ObjA), Num(42)} :
       CreatesPrototypeOf(b, x)

SpecProto == Init /\ [][NextProto]_vars

\* builder d is builder s or was made of it, directly or through other builders
RECURSIVE Descends(_, _)
Descends(d, s) ==
  d = s \/ \E m \in 1..(d - 1) : DerivedFrom(d, m) /\ Descends(m, s)

\* the prototype object the instance k was made with, by what its maker holds
MadeWith(k) ==
  IF insts[k].c # 0 THEN ctors[insts[k].c].proto ELSE builders[insts[k].b].proto

\* C11: an instance made by create(), by an exported constructor function or from
\* prototype() and descriptors() has the builder's prototype object as prototype;
\* createsPrototypeOf(x) is true exactly for the instances made of the builder or of
\* a builder derived from it, and false for every other object or value.
C11_InstancePrototype ==
  /\ \A k \in InstIds : heap[insts[k].o].proto = MadeWith(k)
  /\ \A c \in 1..Len(ctors) : \E b \in Roots : ctors[c].proto = builders[b].proto

C11_Answer ==
  ret.op = "createsPrototypeOf" =>
    ret.val = Bool(\E k \in InstIds :
                     /\ ret.arg = Ref(insts[k].o)
                     /\ \E d \in Roots : builders[d].proto = MadeWith(k) /\ Descends(d, ret.b))

C11_ExportKeepsPrototype ==
  /\ ret'.op = "constructor" /\ ret'.ok =>
       ctors'[Len(ctors')].proto = builders[ret'.b].proto
  /\ \A b \in 1..Len(builders) :
       /\ builders'[b].proto = builders[b].proto
       /\ heap'[builders[b].proto].proto = heap[builders[b].proto].proto

NextInit ==
  \/ Cardinality(Roots) < MaxRoots /\ Factory(Undef)
  \/ \E b \in Roots : Property(b, "name", Num(42), NoDesc)
  \/ \E b \in Roots : Property(b, "a", Num(1), NoDesc)
  \/ \E b \in Roots : Constructor(b, Undef, 0)
  \/ \E b \in Roots, fn \in {Initializer, Incrementer} : Constructor(b, fn, 1)
  \/ \E b \in Roots, x \in {Num(5), Undef} : Constructor(b, x, 1)
  \/ \E c \in 1..Len(ctors), args \in {<<>>, <<Num(17)>>} : New(c, args)
  \/ \E o \in Instances : Get(o, "name")

SpecInit == Init /\ [][NextInit]_vars

\* what the property p of an instance holds after new C(arg), for the default d of p
AfterNew(C, p, d, arg) ==
  IF C.fn = Initializer /\ p = "name" THEN arg
  ELSE IF C.fn = Incrementer /\ p = "a" /\ d.t = "num" THEN Num(d.v + 1)
  ELSE d

\* C12: new C(args) defines every property of the exported descriptors on the new
\* instance and then applies the initializer once to it with the arguments: the
\* instance holds the defaults but for what one application of the initializer set
\* after them; without an initializer it holds the defaults; constructor(x) with an
\* x that is no function throws and exports nothing.
C12_Constructed ==
  ret.op = "new" /\ ret.ok =>
    LET C == ctors[ret.b]
        o == ret.val.v
    IN /\ heap[o].proto = C.proto
       /\ DOMAIN heap[o].props = DOMAIN maps[C.descs]
       /\ \A p \in DOMAIN maps[C.descs] :
            heap[o].props[p].value = AfterNew(C, p, maps[C.descs][p]["value"], ret.arg)

C12_Export ==
  ret'.op = "constructor" =>
    /\ typeof(ret'.arg) = "function" => ret'.ok /\ ctors'[Len(ctors')].fn = ret'.arg
    /\ ret'.arg = Num(5) => ~ret'.ok
    /\ ret'.ok => /\ Len(ctors') = Len(ctors) + 1
                  /\ maps'[ctors'[Len(ctors')].descs] = ScalarMap(ret'.b)
                  /\ ctors'[Len(ctors')].fn \in {Undef, ret'.arg}
    /\ ~ret'.ok => /\ typeof(ret'.arg) # "function"
                   /\ ctors' = ctors /\ heap' = heap /\ maps' = maps /\ builders' = builders

C12_InitializerAfterDefaults == [](C12_Constructed) /\ [][C12_Export]_vars

\* new C(17) returned an instance with name = 17 set by the initializer over the
\* default 42, and a at its default
C12_Witness ==
  /\ ret.op = "new" /\ ret.ok
  /\ ctors[ret.b].fn = Initializer
  /\ ret.arg = Num(17)
  /\ DOMAIN heap[ret.val.v].props = {"a", "name"}
  /\ heap[ret.val.v].props["name"].value = Num(17)
  /\ heap[ret.val.v].props["a"].value = Num(1)

(***************************************************************************)
(* SpecKinds: a builder and a builder derived from it, the name `name`     *)
(* declared with the object default {a: 42} and with the scalar default 5, *)
(* the instances create() makes and the accessor reads on them.  The       *)
(* caller declares name on a builder whose own prototype object does not   *)
(* hold $name yet, so that no declaration throws.                          *)
(***************************************************************************)
Undeclared(b, p) == Dollar(p) \notin DOMAIN heap[builders[b].proto].props

NextKinds ==
  \/ Cardinality(Roots) < MaxRoots /\ Factory(Undef)
  \/ \E b \in Roots : Cardinality(Roots) < MaxRoots + MaxDerived /\ Factory(Bld(b))
  \/ \E b \in Roots : Undeclared(b, "name") /\ Property(b, "name", Ref(ObjA), NoDesc)
  \/ \E b \in Roots : Undeclared(b, "name") /\ Property(b, "name", Num(5), NoDesc)
  \/ \E b \in Roots : Property(b, "b", Num(17), NoDesc)
  \/ \E b \in Roots : Create(b)
  \/ \E o \in Instances, p \in {"name", "b"} : Get(o, p)

SpecKinds == Init /\ [][NextKinds]_vars

\* C13: in every builder the names of the scalar map and of the object map are
\* disjoint.
C13_MapsDisjoint ==
  \A b \in 1..Len(builders) : DOMAIN ScalarMap(b) \cap DOMAIN ObjectMap(b) = {}

(***************************************************************************)
(* SpecAccessor: a builder and a builder derived from it; a is declared    *)
(* with a scalar, an object and an array default, as a raw property and as *)
(* a nested builder, foo with a function default, con as a constant.       *)
(***************************************************************************)
NextAccessor ==
  \/ Cardinality(Roots) < MaxRoots /\ Factory(Undef)
  \/ \E b \in Roots : Cardinality(Roots) < MaxRoots + MaxDerived /\ Factory(Bld(b))
  \/ \E b \in Roots, d \in {Num(42), Ref(ObjA), Ref(ArrA)} : Property(b, "a", d, NoDesc)
  \/ \E b \in Roots : Property(b, "foo", Fn(2), NoDesc)
  \/ \E b \in Roots : RawProperty(b, "a", Ref(ObjA), NoDesc)
  \/ \E b \in Roots : Constant(b, "con", Num(5), NoDesc, 2)
  \/ \E b \in Roots : Len(builders) - Cardinality(Roots) < MaxNested /\ Nested(b, "a", Undef, NoDesc)

SpecAccessor == Init /\ [][NextAccessor]_vars

\* the function createGetterSetter makes for p: it reads this[p] when called
\* without argument and writes it when called with one
IsAccessorFor(v, p) == v.t = "acc" /\ v.v = p

\* "$" + p resolves on the prototype object of builder b to the accessor of p
Resolves(h, bs, b, p) == IsAccessorFor(JSGet(h, bs[b].proto, Dollar(p)), p)

Declares == {"property", "constant", "nested", "rawProperty"}

\* a successful declaration of a name with a default that is not a function
\* leaves the accessor of the name on the prototype object
C14_Installs ==
  ret'.op \in Declares /\ ret'.ok /\ typeof(ret'.arg) # "function" =>
    Resolves(heap', builders', ret'.b, ret'.name)

\* property(p, fn) puts fn under p on the prototype object and leaves "$" + p
\* as it was
C14_FunctionDefault ==
  ret'.op = "property" /\ ret'.ok /\ typeof(ret'.arg) = "function" =>
    /\ JSGet(heap', builders'[ret'.b].proto, ret'.name) = ret'.arg
    /\ JSGet(heap', builders'[ret'.b].proto, Dollar(ret'.name))
         = JSGet(heap, builders[ret'.b].proto, Dollar(ret'.name))
    /\ maps' = maps

\* an accessor that resolves keeps resolving
C14_Stays ==
  \A b \in 1..Len(builders), p \in {"a", "con", "foo"} :
    Resolves(heap, builders, b, p) => Resolves(heap', builders', b, p)

\* C14: for every name p declared by a successful property call with a default
\* that is not a function, or by a successful constant, nested or rawProperty
\* call, "$" + p resolves on the builder's prototype object, own or through its
\* chain, to the generated accessor of p, from then on; property(p, fn) with a
\* function behaves as method(p, fn) and installs no accessor.
C14_AccessorInstalled ==
  [][C14_Installs /\ C14_FunctionDefault /\ C14_Stays]_vars

\* a raw declaration has just put the accessor of a on the prototype object of
\* a builder that holds the function foo and no accessor of foo
C14_Witness ==
  /\ ret.op = "rawProperty" /\ ret.ok
  /\ Resolves(heap, builders, ret.b, "a")
  /\ JSGet(heap, builders[ret.b].proto, "foo") = Fn(2)
  /\ JSGet(heap, builders[ret.b].proto, "$foo") = Undef

\* C14 as stated: every successful property, constant, nested or rawProperty
\* call, whatever the kind of the default, leaves the accessor of the name
C14_EveryBranch ==
  ret.op \in Declares /\ ret.ok => Resolves(heap, builders, ret.b, ret.name)

(***************************************************************************)
(* SpecMerge: one builder; a is declared with property and rawProperty,    *)
(* with every default of Defaults and every descriptor of Overrides (none, *)
(* or any choice of the three flags with or without a value or a getter).  *)
(* A declaration of a after the first one throws on $a after it wrote the  *)
(* descriptor.                                                             *)
(***************************************************************************)
Flags == {"configurable", "enumerable", "writable"}
FlagMaps == UNION {[fs -> BOOLEAN] : fs \in SUBSET Flags}
Extras == {EmptyDesc, [value |-> Num(5)], [value |-> Undef], [get |-> Fn(2)]}
Overrides == {NoDesc} \cup {f @@ x : f \in FlagMaps, x \in Extras}
Defaults == {Undef, Num(42)}
RawDefaults == Defaults \cup {Null}

NextMerge ==
  \/ Cardinality(Roots) < MaxRoots /\ Factory(Undef)
  \/ \E b \in Roots, d \in Defaults, desc \in Overrides : Property(b, "a", d, desc)
  \/ \E b \in Roots, d \in RawDefaults, desc \in Overrides : RawProperty(b, "a", d, desc)

SpecMerge == Init /\ [][NextMerge]_vars

\* baseline, explicit override, resolved default value, in that order
Sources(d, desc) ==
  <<REGULAR_PROPERTY,
    IF desc = NoDesc THEN EmptyDesc ELSE desc,
    IF d = Undef THEN EmptyDesc ELSE [value |-> d]>>

\* whether source src explicitly defines attribute a
Explicit(src, a) == a \in DOMAIN src /\ (a \notin Flags => src[a] # Undef)

\* descriptor final is the attribute-wise merge of the sources: it has the
\* attributes some source defines, each with the value of the last source
\* that defines it
IsMerge(final, srcs) ==
  /\ DOMAIN final = {Attrs[i] : i \in {j \in 1..Len(Attrs) :
                                         \E k \in 1..Len(srcs) : Explicit(srcs[k], Attrs[j])}}
  /\ \A a \in DOMAIN final :
       \E k \in 1..Len(srcs) :
          /\ Explicit(srcs[k], a)
          /\ \A j \in (k + 1)..Len(srcs) : ~Explicit(srcs[j], a)
          /\ final[a] = srcs[k][a]

\* the four cases the statement names
MergeCases(final, d, desc) ==
  /\ d = Undef /\ desc = NoDesc => final = REGULAR_PROPERTY
  /\ d = Undef /\ desc # NoDesc /\ Explicit(desc, "value") => final["value"] = desc["value"]
  /\ d # Undef => final["value"] = d
  /\ desc # NoDesc =>
       \A f \in Flags : final[f] = IF f \in DOMAIN desc THEN desc[f] ELSE REGULAR_PROPERTY[f]
  /\ desc = NoDesc => \A f \in Flags : final[f] = REGULAR_PROPERTY[f]

\* the scalar descriptor of a after the declaration of a with default d and
\* descriptor desc is the merge of the three sources
C15_Declared ==
  \/ ret'.op = "rawProperty"
  \/ ret'.op = "property" /\ typeof(ret'.arg) \in {"undefined", "number"}
  => /\ IsMerge(maps'[builders'[ret'.b].scalarProperties][ret'.name], Sources(ret'.arg, ret'.desc))
     /\ MergeCases(maps'[builders'[ret'.b].scalarProperties][ret'.name], ret'.arg, ret'.desc)

\* the pure function, on every default and every descriptor
C15_Function ==
  \A d \in RawDefaults, desc \in Overrides :
    IsMerge(createPropertyDescriptor(REGULAR_PROPERTY, d, desc), Sources(d, desc))

\* C15: the final descriptor of a declared property is the attribute-wise
\* merge of baseline, explicit override and resolved default value in that
\* order: the last source that explicitly defines an attribute wins, a source
\* that omits it leaves it untouched.
C15_MergeOrder == [](C15_Function) /\ [][C15_Declared]_vars

\* a was declared with default 42 and a descriptor that has value 5: the final
\* descriptor has value 42, the flag the descriptor set and the baseline's
\* other flags
C15_Witness ==
  /\ ret.op = "rawProperty" /\ ret.arg = Num(42) /\ ret.ok
  /\ ret.desc = [writable |-> FALSE, value |-> Num(5)]
  /\ ScalarMap(ret.b)["a"] =
       [configurable |-> FALSE, enumerable |-> TRUE, writable |-> FALSE, value |-> Num(42)]

(***************************************************************************)
(* SpecAssert: a builder and a builder derived from it; every declaration  *)
(* method is called with a name and with the name omitted (NullName),      *)
(* method and constant also with the name alone (nargs = 1).               *)
(***************************************************************************)
NextAssert ==
  \/ Cardinality(Roots) < MaxRoots /\ Factory(Undef)
  \/ \E b \in Roots : Cardinality(Roots) < MaxRoots + MaxDerived /\ Factory(Bld(b))
  \/ \E b \in Roots, p \in {"a", NullName} : Property(b, p, Num(42), NoDesc)
  \/ \E b \in Roots, p \in {"a", NullName} : RawProperty(b, p, Ref(ObjA), NoDesc)
  \/ \E b \in Roots, p \in {"a", NullName} :
        Len(builders) - Cardinality(Roots) < MaxNested /\ Nested(b, p, Undef, NoDesc)
  \/ \E b \in Roots, p \in {"foo", NullName}, n \in {1, 2} :
        Method(b, p, IF n = 1 THEN Undef ELSE Fn(2), NoDesc, n)
  \/ \E b \in Roots, p \in {"con", NullName}, n \in {1, 2} :
        Constant(b, p, IF n = 1 THEN Undef ELSE Num(5), NoDesc, n)

SpecAssert == Init /\ [][NextAssert]_vars

\* the call that has just returned lacks its name, or is a method or constant
\* call that lacks its second argument
LacksArgument(r) ==
  \/ r.op \in {"property", "rawProperty", "nested", "method", "constant"}
       /\ r.name = NullName
  \/ r.op \in {"method", "constant"} /\ r.nargs <= 1

\* C16: a declaration call without name (property, rawProperty, nested,
\* method, constant), a method call without function and a constant call
\* without value fail, and the builder's maps and prototype object are as
\* before the call.
C16_AssertionLeavesState ==
  [][LacksArgument(ret') =>
       ~ret'.ok /\ heap' = heap /\ maps' = maps /\ builders' = builders]_vars

\* constant was called with a name and no value on a builder that has
\* declared a and foo, and it failed
C16_Witness ==
  /\ ret.op = "constant" /\ ret.name = "con" /\ ret.nargs = 1 /\ ~ret.ok
  /\ "a" \in DOMAIN ScalarMap(ret.b)
  /\ "foo" \in DOMAIN heap[builders[ret.b].proto].props
  /\ "$con" \notin DOMAIN heap[builders[ret.b].proto].props

(***************************************************************************)
(* SpecRedeclare: one builder on which a is declared, and declared again,  *)
(* with property (defaults 42, 17 and {a: 42}), rawProperty and constant.  *)
(***************************************************************************)
NextRedeclare ==
  \/ Cardinality(Roots) < MaxRoots /\ Factory(Undef)
  \/ \E b \in Roots, d \in {Num(42), Num(17), Ref(ObjA)} : Property(b, "a", d, NoDesc)
  \/ \E b \in Roots : RawProperty(b, "a", Ref(ObjA), NoDesc)
  \/ \E b \in Roots : Constant(b, "a", Num(5), NoDesc, 2)
  \/ \E b \in Roots : Create(b)
  \/ \E o \in Instances : Get(o, "a")

SpecRedeclare == Init /\ [][NextRedeclare]_vars

\* C17: a declaration call that fails leaves the builder's scalar map, object
\* map and prototype object as they were before the call.
C17_AllOrNothing ==
  [][ret'.op \in {"property", "rawProperty", "nested", "constant", "method", "properties"}
       /\ ~ret'.ok =>
         /\ ScalarMap(ret'.b) = maps'[builders'[ret'.b].scalarProperties]
         /\ ObjectMap(ret'.b) = maps'[builders'[ret'.b].objectProperties]
         /\ heap[builders[ret'.b].proto] = heap'[builders'[ret'.b].proto]]_vars

(***************************************************************************)
(* SpecRaw: one builder; a is declared once with rawProperty and an        *)
(* object, an array or a function as default, b once with                  *)
(* property(b, undefined, {value: {a: 42}}); instances are created, read   *)
(* through their accessors, and the caller changes the default object and  *)
(* array it reaches through an instance.                                   *)
(***************************************************************************)
NextRaw ==
  \/ Cardinality(Roots) < MaxRoots /\ Factory(Undef)
  \/ \E b \in Roots, d \in {Ref(ObjA), Ref(ArrA), Fn(2)} :
        Undeclared(b, "a") /\ RawProperty(b, "a", d, NoDesc)
  \/ \E b \in Roots : Undeclared(b, "b") /\ Property(b, "b", Undef, [value |-> Ref(ObjA)])
  \/ \E b \in Roots : Create(b)
  \/ \E o \in Instances, p \in {"a", "b"} : Get(o, p)
  \/ ObjA \in Held /\ Assign(ObjA, "a", Num(17))
  \/ ArrA \in Held /\ Push(ArrA, Num(5))

SpecRaw == Init /\ [][NextRaw]_vars

\* the declaration stores the default itself in the scalar map, makes no
\* builder, leaves the object map alone and installs the accessor
C18_Stores ==
  /\ ret'.op = "rawProperty" /\ ret'.ok =>
       /\ maps'[builders'[ret'.b].scalarProperties][ret'.name]["value"] = ret'.arg
       /\ builders' = builders
       /\ maps'[builders'[ret'.b].objectProperties] = ObjectMap(ret'.b)
       /\ Len(heap') = Len(heap)
       /\ Resolves(heap', builders', ret'.b, ret'.name)
  /\ ret'.op = "property" /\ ret'.ok /\ ret'.arg = Undef /\ ret'.desc # NoDesc =>
       /\ maps'[builders'[ret'.b].scalarProperties][ret'.name]["value"] = ret'.desc["value"]
       /\ builders' = builders
       /\ Len(heap') = Len(heap)

\* every instance holds, for a and b, the very reference the builder's scalar
\* map holds
C18_SameReference ==
  \A k \in 1..Len(insts) :
    \A p \in DOMAIN ScalarMap(insts[k].b) \cap DOMAIN heap[insts[k].o].props :
      heap[insts[k].o].props[p].value = ScalarMap(insts[k].b)[p]["value"]

\* a change of the default object or array changes that one object, which all
\* the instances hold
C18_MutationShared ==
  ret'.op \in {"assign", "push"} =>
    /\ \A k \in 1..Len(insts) : heap'[insts[k].o] = heap[insts[k].o]
    /\ ret'.op = "assign" => JSGet(heap', ret'.o, ret'.name) = ret'.arg
    /\ ret'.op = "push" => heap'[ret'.o].elems = Append(heap[ret'.o].elems, ret'.arg)

\* C18: rawProperty(p, d) stores d as it is in the scalar map, makes no child
\* builder and installs $p; every instance holds the same reference d, so a
\* change of d is seen through all instances; the same holds for
\* property(p, undefined, {value: d}).
C18_RawShares == [](C18_SameReference) /\ [][C18_Stores /\ C18_MutationShared]_vars

\* two instances hold the default object {a: 42} under a (raw) and under b,
\* and the caller has set its a to 17
C18_Witness ==
  /\ ret.op = "assign"
  /\ Len(insts) = 2
  /\ \A k \in 1..2, p \in {"a", "b"} :
       /\ p \in DOMAIN heap[insts[k].o].props
       /\ heap[insts[k].o].props[p].value = Ref(ObjA)
  /\ JSGet(heap, ObjA, "a") = Num(17)

(***************************************************************************)
(* SpecClassify: one builder; name and c are declared once each with a     *)
(* function, the objects {a: 42} and {name: {a: 42}}, the array            *)
(* [{a: 42}, 17], a number and undefined as default.  The caller may first *)
(* give {a: 42} the own property b = 17 with Object.defineProperty, which  *)
(* makes it non-enumerable.                                                *)
(***************************************************************************)
\* Object.defineProperty(o, p, {value: v}) in the caller's code
DefineHidden(o, p, v) ==
  \E r \in {defineProperty(heap, o, p, [value |-> v])} :
     /\ p \notin DOMAIN heap[o].props
     /\ heap' = r.heap
     /\ ret' = Call("defineProperty", 0, o, p, v, Ref(o), r.ok)
     /\ UNCHANGED <<maps, builders, ctors, handles, insts>>

NextClassify ==
  \/ Cardinality(Roots) < MaxRoots /\ Factory(Undef)
  \/ builders = <<>> /\ DefineHidden(ObjA, "b", Num(17))
  \/ \E b \in Roots, p \in {"name", "c"},
        d \in {Fn(2), Ref(ObjA), Ref(ObjName), Ref(ArrA), Num(5), Undef} :
        Undeclared(b, p) /\ p \notin DOMAIN heap[builders[b].proto].props
          /\ Property(b, p, d, NoDesc)
  \/ \E b \in Roots : Create(b)
  \/ \E o \in Held, p \in {"a", "b"} : Get(o, p)

SpecClassify == Init /\ [][NextClassify]_vars

IsObject(h, v) == v.t = "ref" /\ h[v.v].kind = "obj"

\* builder c declares one property for every own key of object o, enumerable
\* or not: a child builder that does the same for an object value, a scalar
\* entry with the value for any other value
RECURSIVE Decomposes(_, _, _, _, _)
Decomposes(h, ms, bs, c, o) ==
  LET sc == ms[bs[c].scalarProperties]
      ob == ms[bs[c].objectProperties]
  IN /\ DOMAIN sc \cup DOMAIN ob = DOMAIN h[o].props
     /\ DOMAIN sc \cap DOMAIN ob = {}
     /\ \A k \in DOMAIN h[o].props :
          LET v == h[o].props[k].value
          IN IF IsObject(h, v)
             THEN /\ k \in DOMAIN ob
                  /\ ob[k]["value"].t = "bld"
                  /\ Decomposes(h, ms, bs, ob[k]["value"].v, v.v)
             ELSE /\ k \in DOMAIN sc
                  /\ sc[k]["value"] = v
                  /\ IsAccessorFor(JSGet(h, bs[c].proto, Dollar(k)), k)

\* the non-array objects reachable from value d
ObjectsOf(h, d) == {x \in Reach(h, d.v) : h[x].kind = "obj"}

\* callable default: the builder state method(p, d, desc) gives
C19_Callable ==
  ret'.op = "property" /\ typeof(ret'.arg) = "function" =>
    \E m \in {method(W, ret'.b, ret'.name, ret'.arg, ret'.desc, 3)} :
       /\ ret'.ok = m.ok
       /\ heap' = m.w.heap /\ maps' = m.w.maps /\ builders' = m.w.builders
       /\ maps' = maps
       /\ ret'.ok => JSGet(heap', builders[ret'.b].proto, ret'.name) = ret'.arg

\* non-array object default: one fresh child builder for the object and for
\* every object below it, the outermost one stored in the object map
C19_Object ==
  ret'.op = "property" /\ ret'.ok /\ IsObject(heap, ret'.arg) =>
    LET e == maps'[builders'[ret'.b].objectProperties][ret'.name]["value"]
    IN /\ e.t = "bld" /\ e.v > Len(builders)
       /\ Decomposes(heap', maps', builders', e.v, ret'.arg.v)
       /\ Len(builders') = Len(builders) + Cardinality(ObjectsOf(heap, ret'.arg))
       /\ maps'[builders'[ret'.b].scalarProperties] = ScalarMap(ret'.b)

\* array default: a sequence of the same length, a fresh child builder of its
\* own for every object element, the other elements as they are
C19_Array ==
  ret'.op = "property" /\ ret'.ok /\ ret'.arg.t = "ref" /\ isArray(heap, ret'.arg) =>
    LET e == maps'[builders'[ret'.b].objectProperties][ret'.name]["value"]
        items == heap[ret'.arg.v].elems
    IN /\ e.t = "seq" /\ Len(e.v) = Len(items)
       /\ \A i \in 1..Len(items) :
            IF IsObject(heap, items[i])
            THEN /\ e.v[i].t = "bld" /\ e.v[i].v > Len(builders)
                 /\ Decomposes(heap', maps', builders', e.v[i].v, items[i].v)
                 /\ \A j \in 1..Len(items) : j # i => e.v[j] # e.v[i]
            ELSE e.v[i] = items[i]
       /\ maps'[builders'[ret'.b].scalarProperties] = ScalarMap(ret'.b)

\* number or undefined default: a scalar entry, no builder
C19_Scalar ==
  ret'.op = "property" /\ ret'.ok /\ typeof(ret'.arg) \in {"number", "undefined"} =>
    /\ ret'.name \in DOMAIN maps'[builders'[ret'.b].scalarProperties]
    /\ ret'.arg # Undef =>
         maps'[builders'[ret'.b].scalarProperties][ret'.name]["value"] = ret'.arg
    /\ maps'[builders'[ret'.b].objectProperties] = ObjectMap(ret'.b)
    /\ builders' = builders

\* no object map holds a default object itself
C19_NoDefaultStored ==
  \A b \in 1..Len(builders) : \A n \in DOMAIN ObjectMap(b) :
    ObjectMap(b)[n]["value"].t \in {"bld", "seq"}

DeclaresEnumerable(c, o) ==
  DOMAIN ScalarMap(c) \cup DOMAIN ObjectMap(c) =
    {k \in DOMAIN heap[o].props : heap[o].props[k].enumerable}

NextNull ==
  \/ Cardinality(Roots) < MaxRoots /\ Factory(Undef)
  \/ Assign(ObjA, "a", Null)
  \/ Push(ArrA, Null)
  \/ \E b \in Roots, d \in {Null, Num(42)} : Undeclared(b, "a") /\ Property(b, "a", d, NoDesc)
  \/ \E b \in Roots, d \in {Ref(ObjA), Ref(ArrA)} :
        Undeclared(b, "name") /\ Property(b, "name", d, NoDesc)
  \/ \E b \in Roots : Create(b)
  \/ \E o \in Held : Get(o, "a")

SpecNull == Init /\ [][NextNull]_vars

\* C20: property(p, null) succeeds and stores p with the value null in the
\* scalar map, without making a builder.
C20_NullIsScalar ==
  [][ret'.op = "property" /\ ret'.arg = Null =>
       /\ ret'.ok
       /\ ret'.name \in DOMAIN maps'[builders'[ret'.b].scalarProperties]
       /\ builders' = builders]_vars

(***************************************************************************)
(* SpecDescs: one builder with the scalar a and the object-valued name,    *)
(* each declared once.  The caller takes the map descriptors() returns and *)
(* writes an entry of it or deletes one; it creates instances and reads a. *)
(* The map descriptors() builds for a builder with object properties is a  *)
(* new object that nothing else holds: a write to it is not kept.          *)
(***************************************************************************)
\* b.descriptors()[p] = {value: v, enumerable: true, writable: true}
EditDescriptors(b, p, v) ==
  \E d \in {descriptors(W, b)} :
     /\ d.ok
     /\ Fits(d.w)
     /\ Commit(IF d.alias = 0 THEN d.w
               ELSE SetEntry(d.w, d.alias, p,
                             [value |-> v, enumerable |-> TRUE, writable |-> TRUE]))
     /\ ret' = Call("edit", b, 0, p, v, v, TRUE)
     /\ UNCHANGED <<ctors, handles, insts>>

\* delete b.descriptors()[p]
RemoveDescriptor(b, p) ==
  \E d \in {descriptors(W, b)} :
     /\ d.ok
     /\ Fits(d.w)
     /\ Commit(IF d.alias = 0 THEN d.w
               ELSE [d.w EXCEPT !.maps[d.alias] = [n \in DOMAIN @ \ {p} |-> @[n]]])
     /\ ret' = Call("remove", b, 0, p, Undef, Bool(TRUE), TRUE)
     /\ UNCHANGED <<ctors, handles, insts>>

NextDescs ==
  \/ Cardinality(Roots) < MaxRoots /\ Factory(Undef)
  \/ \E b \in Roots : Undeclared(b, "a") /\ Property(b, "a", Num(42), NoDesc)
  \/ \E b \in Roots : Undeclared(b, "name") /\ Property(b, "name", Ref(ObjA), NoDesc)
  \/ \E b \in Roots, p \in {"a", "c"} : EditDescriptors(b, p, Num(17))
  \/ \E b \in Roots : RemoveDescriptor(b, "a")
  \/ \E b \in Roots : Create(b)
  \/ \E o \in Instances : Get(o, "a")

SpecDescs == Init /\ [][NextDescs]_vars

\* C21: a write to the map descriptors() returned, or the removal of one of
\* its entries, changes the scalar map and the object map of no builder.
C21_ReturnedMapIndependent ==
  [][ret'.op \in {"edit", "remove"} =>
       \A b \in 1..Len(builders) :
         /\ maps'[builders'[b].scalarProperties] = ScalarMap(b)
         /\ maps'[builders'[b].objectProperties] = ObjectMap(b)]_vars

====
